---- MODULE Spec2Model ----
(***************************************************************************)
(* Budget-constrained roster / transfer logic and leaderboard aggregation  *)
(* of the MLBB Fantasy League API (src/main.py, src/schemas.py).           *)
(***************************************************************************)
EXTENDS Integers, Sequences, FiniteSets, TLC

VARIABLES
    draftteam,   \* collection "draftteam": sequence of roster documents, _id = index
    transfer,    \* collection "transfer": sequence of audit documents
    pc,          \* position of each make_transfer request in its handler
    treq,        \* TransferRequest body of each make_transfer request
    draft,       \* make_transfer local `draft` (snapshot read by find_one; `seen` is
                 \* history: how many updates had been applied when it was read)
    ids,         \* make_transfer local `ids`
    new_total,   \* make_transfer local `new_total`
    tstatus,     \* response of each make_transfer request
    updates,     \* history: update_one calls applied by make_transfer, in order
    dresp,       \* response of the last create_draft call
    lbreq,       \* query parameters of the last leaderboard call
    rows         \* response of the last leaderboard call

vars == <<draftteam, transfer, pc, treq, draft, ids, new_total, tstatus,
          updates, dresp, lbreq, rows>>

----------------------------------------------------------------------------
(* Bounds *)

NumProcs == 2
MaxRosters == 1
MaxIds == 2
MaxLbRosters == 3
MaxLimit == 2

Procs == 1..NumProcs

----------------------------------------------------------------------------
(* Identifiers.  An id string is abstracted by its length and by whether   *)
(* all of its characters are hexadecimal digits, which is all that         *)
(* ObjectId(id_str) looks at.                                              *)

IdShape(s) ==
    CASE s = "p1"   -> [len |-> 24, hex |-> TRUE]
      [] s = "p2"   -> [len |-> 24, hex |-> TRUE]
      [] s = "px"   -> [len |-> 24, hex |-> TRUE]
      [] s = "bad"  -> [len |-> 24, hex |-> FALSE]
      [] s = "u1"   -> [len |-> 24, hex |-> TRUE]
      [] s = "u2"   -> [len |-> 24, hex |-> TRUE]
      [] s = "u3"   -> [len |-> 24, hex |-> TRUE]
      [] s = "ubad" -> [len |-> 5,  hex |-> TRUE]
      [] OTHER      -> [len |-> 0,  hex |-> TRUE]

\* ObjectId.is_valid / the try-branch of oid()
ObjectIdValid(s) == IdShape(s).len = 24 /\ IdShape(s).hex

\* oid(): the ObjectId, or the HTTPException(400, "Invalid id")
oid(s) == IF ObjectIdValid(s) THEN [ok |-> TRUE, value |-> s]
          ELSE [ok |-> FALSE, value |-> "Invalid id"]

PlayerIdStrs == {"p1", "p2", "bad"}
UserIdStrs == {"u1", "ubad"}
Weeks == {1}
Budgets == {74, 75}
DefaultBudget == 100

\* collection "player": the seeded catalog (Player.cost >= 1); the well-formed
\* id "px" has no document
player == { [_id |-> "p1", cost |-> 40], [_id |-> "p2", cost |-> 35] }

\* collection "user"
user == { [_id |-> "u1", username |-> "alice"], [_id |-> "u2", username |-> "bob"] }

----------------------------------------------------------------------------
(* Helpers *)

Range(s) == { s[i] : i \in 1..Len(s) }

SeqsUpTo(S, n) == UNION { [1..k -> S] : k \in 0..n }

RECURSIVE SumCost(_)
\* sum(p.get("cost", 0) for p in players) over a set of documents
SumCost(docs) ==
    IF docs = {} THEN 0
    ELSE LET d == CHOOSE x \in docs : TRUE
         IN  d.cost + SumCost(docs \ {d})

\* db["player"].find({"_id": {"$in": idlist}}): each matching document once
find_in(idlist) == { d \in player : d._id \in Range(idlist) }

\* cost of one id as an entry of a roster: its document's cost, 0 when absent
CostOf(id) ==
    IF \E d \in player : d._id = id
    THEN (CHOOSE d \in player : d._id = id).cost
    ELSE 0

RECURSIVE EntrySum(_)
\* sum over every entry of a player_ids list, each occurrence counted
EntrySum(idlist) ==
    IF idlist = <<>> THEN 0
    ELSE CostOf(Head(idlist)) + EntrySum(Tail(idlist))

NoDraft == [_id |-> 0, budget |-> 0, player_ids |-> <<>>, seen |-> 0]
NoReq == [user_id |-> "", week |-> 0, out_player_id |-> "", in_player_id |-> ""]
NoResp == [status |-> 0, detail |-> ""]

----------------------------------------------------------------------------
(* Requests *)

\* DraftRequest (pydantic body of POST /draft)
DraftRequests ==
    [user_id : UserIdStrs, week : Weeks,
     player_ids : SeqsUpTo(PlayerIdStrs, MaxIds), budget : Budgets]

\* TransferRequest (pydantic body of POST /transfer)
TransferRequests ==
    [user_id : UserIdStrs, week : Weeks,
     out_player_id : PlayerIdStrs, in_player_id : PlayerIdStrs]

----------------------------------------------------------------------------
(* Storage layer *)

\* create_document(collection, data): insert_one, the new document last
create_document(coll, doc) == Append(coll, doc)

\* db["draftteam"].find_one({"user_id": u, "week": w}): the _id values that match
find_one(u, w) ==
    { i \in 1..Len(draftteam) :
        draftteam[i].user_id = u /\ draftteam[i].week = w }

\* as set_fields, had the update pushed the incoming player onto the stored list
set_fields_push(doc, idlist, total) ==
    [doc EXCEPT !.player_ids = Append(doc.player_ids, idlist[Len(idlist)]),
                !.total_cost = total]

\* {"$set": {"player_ids": ids, "total_cost": new_total, ...}} applied to a document
set_fields(doc, idlist, total) ==
    [doc EXCEPT !.player_ids = idlist, !.total_cost = total]

----------------------------------------------------------------------------
(* POST /draft *)

\* as BudgetExceeded, had the comparison been >=
BudgetExceeded_inclusive(total, budget) == total >= budget

\* as BudgetExceeded, had the cap been the default budget instead of the given one
BudgetExceeded_default(total, budget) == total > DefaultBudget

\* the comparison of `if total_cost > req.budget` / `if new_total > draft.get("budget", 100)`
BudgetExceeded(total, budget) == total > budget

\* [oid(pid) for pid in idlist] raises
AnyInvalid(idlist) == \E i \in 1..Len(idlist) : ~oid(idlist[i]).ok

\* DraftTeamSchema(...).model_dump()
DraftTeam(r, total) ==
    [user_id |-> r.user_id, week |-> r.week, budget |-> r.budget,
     player_ids |-> r.player_ids, total_cost |-> total, points |-> 0]

create_draft(r) ==
    /\ IF AnyInvalid(r.player_ids)
       THEN /\ dresp' = [status |-> 400, detail |-> "Invalid id"]
            /\ UNCHANGED draftteam
       ELSE LET total_cost == SumCost(find_in(r.player_ids)) IN
            IF BudgetExceeded(total_cost, r.budget)
            THEN /\ dresp' = [status |-> 400, detail |-> "Budget exceeded"]
                 /\ UNCHANGED draftteam
            ELSE /\ Len(draftteam) < MaxRosters
                 /\ draftteam' = create_document(draftteam, DraftTeam(r, total_cost))
                 /\ dresp' = [status |-> 200, detail |-> "created"]
    /\ UNCHANGED <<transfer, pc, treq, draft, ids, new_total, tstatus, updates,
                   lbreq, rows>>

----------------------------------------------------------------------------
(* POST /transfer, one step per storage call *)

RECURSIVE remove_first(_, _)
remove_first(list, x) ==
    IF list = <<>> THEN <<>>
    ELSE IF Head(list) = x THEN Tail(list)
         ELSE <<Head(list)>> \o remove_first(Tail(list), x)

\* as swap, had the removal been list.remove(out): the first occurrence only
swap_first_only(player_ids, out, in) == Append(remove_first(player_ids, out), in)

\* ids = [pid for pid in draft["player_ids"] if pid != out]; ids.append(in)
swap(player_ids, out, in) ==
    Append(SelectSeq(player_ids, LAMBDA x : x # out), in)

\* draft = db["draftteam"].find_one(...); 404 when there is none
t_find(p, r) ==
    /\ pc[p] = "idle"
    /\ IF find_one(r.user_id, r.week) = {}
       THEN /\ pc' = [pc EXCEPT ![p] = "done"]
            /\ tstatus' = [tstatus EXCEPT ![p] = [status |-> 404, detail |-> "No draft found"]]
            /\ UNCHANGED <<draft, treq>>
       ELSE /\ \E i \in find_one(r.user_id, r.week) :
                 draft' = [draft EXCEPT ![p] =
                     [_id |-> i, budget |-> draftteam[i].budget,
                      player_ids |-> draftteam[i].player_ids,
                      seen |-> Len(updates)]]
            /\ treq' = [treq EXCEPT ![p] = r]
            /\ pc' = [pc EXCEPT ![p] = "lookup"]
            /\ UNCHANGED tstatus
    /\ UNCHANGED <<draftteam, transfer, ids, new_total, updates, dresp, lbreq, rows>>

\* the two player lookups and the recomputed cost
t_lookup(p) ==
    /\ pc[p] = "lookup"
    /\ LET new_ids == swap(draft[p].player_ids, treq[p].out_player_id, treq[p].in_player_id) IN
       IF AnyInvalid(draft[p].player_ids) \/ AnyInvalid(new_ids)
       THEN /\ pc' = [pc EXCEPT ![p] = "done"]
            /\ tstatus' = [tstatus EXCEPT ![p] = [status |-> 400, detail |-> "Invalid id"]]
            /\ draft' = [draft EXCEPT ![p] = NoDraft]
            /\ treq' = [treq EXCEPT ![p] = NoReq]
            /\ UNCHANGED <<ids, new_total>>
       ELSE /\ ids' = [ids EXCEPT ![p] = new_ids]
            /\ new_total' = [new_total EXCEPT ![p] = SumCost(find_in(new_ids))]
            /\ pc' = [pc EXCEPT ![p] = "update"]
            /\ UNCHANGED <<tstatus, draft, treq>>
    /\ UNCHANGED <<draftteam, transfer, updates, dresp, lbreq, rows>>

\* as t_update, had update_one been issued before the budget check
t_update_writes_first(p) ==
    /\ pc[p] = "update"
    /\ draftteam' = [draftteam EXCEPT ![draft[p]._id] =
                        set_fields(@, ids[p], new_total[p])]
    /\ updates' = Append(updates,
           [proc |-> p, _id |-> draft[p]._id, base |-> draft[p].player_ids,
            seen |-> draft[p].seen,
            out_player_id |-> treq[p].out_player_id,
            in_player_id |-> treq[p].in_player_id])
    /\ IF BudgetExceeded(new_total[p], draft[p].budget)
       THEN /\ pc' = [pc EXCEPT ![p] = "done"]
            /\ tstatus' = [tstatus EXCEPT ![p] = [status |-> 400, detail |-> "Budget exceeded"]]
            /\ draft' = [draft EXCEPT ![p] = NoDraft]
            /\ ids' = [ids EXCEPT ![p] = <<>>]
            /\ new_total' = [new_total EXCEPT ![p] = 0]
            /\ treq' = [treq EXCEPT ![p] = NoReq]
       ELSE /\ pc' = [pc EXCEPT ![p] = "audit"]
            /\ UNCHANGED <<tstatus, draft, ids, new_total, treq>>
    /\ UNCHANGED <<transfer, dresp, lbreq, rows>>

\* the budget check and update_one
t_update(p) ==
    /\ pc[p] = "update"
    /\ IF BudgetExceeded(new_total[p], draft[p].budget)
       THEN /\ pc' = [pc EXCEPT ![p] = "done"]
            /\ tstatus' = [tstatus EXCEPT ![p] = [status |-> 400, detail |-> "Budget exceeded"]]
            /\ draft' = [draft EXCEPT ![p] = NoDraft]
            /\ ids' = [ids EXCEPT ![p] = <<>>]
            /\ new_total' = [new_total EXCEPT ![p] = 0]
            /\ treq' = [treq EXCEPT ![p] = NoReq]
            /\ UNCHANGED <<draftteam, updates>>
       ELSE /\ draftteam' = [draftteam EXCEPT ![draft[p]._id] =
                                set_fields(@, ids[p], new_total[p])]
            /\ updates' = Append(updates,
                   [proc |-> p, _id |-> draft[p]._id, base |-> draft[p].player_ids,
                    seen |-> draft[p].seen,
                    out_player_id |-> treq[p].out_player_id,
                    in_player_id |-> treq[p].in_player_id])
            /\ pc' = [pc EXCEPT ![p] = "audit"]
            /\ UNCHANGED <<tstatus, draft, ids, new_total, treq>>
    /\ UNCHANGED <<transfer, dresp, lbreq, rows>>

\* TransferSchema(...), create_document("transfer", tr), return {"status": "ok"}
t_audit(p) ==
    /\ pc[p] = "audit"
    /\ transfer' = create_document(transfer,
           [user_id |-> treq[p].user_id, week |-> treq[p].week,
            out_player_id |-> treq[p].out_player_id,
            in_player_id |-> treq[p].in_player_id])
    /\ pc' = [pc EXCEPT ![p] = "done"]
    /\ tstatus' = [tstatus EXCEPT ![p] = [status |-> 200, detail |-> "ok"]]
    /\ draft' = [draft EXCEPT ![p] = NoDraft]
    /\ ids' = [ids EXCEPT ![p] = <<>>]
    /\ new_total' = [new_total EXCEPT ![p] = 0]
    /\ treq' = [treq EXCEPT ![p] = NoReq]
    /\ UNCHANGED <<draftteam, updates, dresp, lbreq, rows>>

make_transfer(p) ==
    \/ \E r \in TransferRequests : t_find(p, r)
    \/ t_lookup(p)
    \/ t_update(p)
    \/ t_audit(p)

----------------------------------------------------------------------------
(* Specification of the draft / transfer subsystem *)

NoLbReq == [week |-> <<>>, limit |-> 0]

Init ==
    /\ draftteam = <<>>
    /\ transfer = <<>>
    /\ pc = [p \in Procs |-> "idle"]
    /\ treq = [p \in Procs |-> NoReq]
    /\ draft = [p \in Procs |-> NoDraft]
    /\ ids = [p \in Procs |-> <<>>]
    /\ new_total = [p \in Procs |-> 0]
    /\ tstatus = [p \in Procs |-> NoResp]
    /\ updates = <<>>
    /\ dresp = NoResp
    /\ lbreq = NoLbReq
    /\ rows = <<>>

Next ==
    \/ \E r \in DraftRequests : create_draft(r)
    \/ \E p \in Procs : make_transfer(p)

Spec == Init /\ [][Next]_vars

----------------------------------------------------------------------------
(* Specification of POST /draft alone, over a wider range of requests *)

DraftRequestsWide ==
    [user_id : UserIdStrs, week : {1, 2},
     player_ids : SeqsUpTo(PlayerIdStrs \cup {"px"}, MaxIds), budget : Budgets]

NextDraft == \E r \in DraftRequestsWide : create_draft(r)

SpecDraft == Init /\ [][NextDraft]_vars

----------------------------------------------------------------------------
(* GET /leaderboard *)

LbUsers == {"u1", "u3", "ubad"}
LbWeeks == {1, 2}
LbPoints == {0, 1}

\* rosters as the scoring process leaves them: created by POST /draft with an
\* empty player_ids, `points` assigned since
LbRosters ==
    [user_id : LbUsers, week : LbWeeks, budget : {DefaultBudget},
     player_ids : {<<>>}, total_cost : {0}, points : LbPoints]

\* as matches, had the $match stage been left out
matches_any(doc, week) == TRUE

\* {"$match": {"week": week}}, present only when week is not None
matches(doc, week) == week = <<>> \/ doc.week = week[1]

RECURSIVE SumPoints(_, _)
\* {"$sum": "$points"} over the documents at the indices I
SumPoints(coll, I) ==
    IF I = {} THEN 0
    ELSE LET i == CHOOSE x \in I : TRUE
         IN  coll[i].points + SumPoints(coll, I \ {i})

\* {"$group": {"_id": "$user_id", "points": {"$sum": "$points"}}}
group(coll, week) ==
    LET M == { i \in 1..Len(coll) : matches(coll[i], week) }
    IN  { [_id |-> u, points |-> SumPoints(coll, { i \in M : coll[i].user_id = u })] :
            u \in { coll[i].user_id : i \in M } }

\* the order {"$sort": {"points": -1}} asks of two adjacent rows
sort_order(a, b) == a.points >= b.points

\* {"$sort": {"points": -1}}: every arrangement in that order (ties in any order)
sort(G) ==
    { s \in [1..Cardinality(G) -> G] :
        /\ \A i, j \in 1..Cardinality(G) : i # j => s[i] # s[j]
        /\ \A i \in 1..(Cardinality(G) - 1) : sort_order(s[i], s[i + 1]) }

\* {"$limit": limit}
limit_rows(s, limit) == SubSeq(s, 1, IF limit < Len(s) THEN limit ELSE Len(s))

\* the username hydration loop
hydrate(r) ==
    LET found == IF ObjectIdValid(r._id)
                 THEN { u \in user : u._id = oid(r._id).value }
                 ELSE { u \in user : u._id = r._id }
    IN  [user_id |-> r._id, points |-> r.points,
         username |-> IF found = {} THEN "Unknown"
                      ELSE (CHOOSE u \in found : TRUE).username]

leaderboard(week, limit) ==
    /\ \E s \in sort(group(draftteam, week)) :
         rows' = [i \in 1..Len(limit_rows(s, limit)) |-> hydrate(limit_rows(s, limit)[i])]
    /\ lbreq' = [week |-> week, limit |-> limit]
    /\ UNCHANGED <<draftteam, transfer, pc, treq, draft, ids, new_total, tstatus,
                   updates, dresp>>

InitLB ==
    /\ draftteam \in SeqsUpTo(LbRosters, MaxLbRosters)
    /\ transfer = <<>>
    /\ pc = [p \in Procs |-> "idle"]
    /\ treq = [p \in Procs |-> NoReq]
    /\ draft = [p \in Procs |-> NoDraft]
    /\ ids = [p \in Procs |-> <<>>]
    /\ new_total = [p \in Procs |-> 0]
    /\ tstatus = [p \in Procs |-> NoResp]
    /\ updates = <<>>
    /\ dresp = NoResp
    /\ lbreq = NoLbReq
    /\ rows = <<>>

NextLB ==
    \E week \in {<<>>} \cup { <<w>> : w \in LbWeeks } :
        \E limit \in 1..MaxLimit : leaderboard(week, limit)

SpecLB == InitLB /\ [][NextLB]_vars

----------------------------------------------------------------------------
(* Properties *)

RECURSIVE RemoveAll(_, _)
\* a list without the entries equal to x, the others in their order
RemoveAll(list, x) ==
    IF list = <<>> THEN <<>>
    ELSE IF Head(list) = x THEN RemoveAll(Tail(list), x)
         ELSE <<Head(list)>> \o RemoveAll(Tail(list), x)

Distinct(list) == \A i, j \in 1..Len(list) : i # j => list[i] # list[j]
Existing(list) == \A i \in 1..Len(list) : \E d \in player : d._id = list[i]
WellFormed(list) == \A i \in 1..Len(list) : ObjectIdValid(list[i])

BudgetError == [status |-> 400, detail |-> "Budget exceeded"]
IdError == [status |-> 400, detail |-> "Invalid id"]
Ok == [status |-> 200, detail |-> "ok"]

\* the update_one calls applied to roster i, as positions of the history
UpdatesOf(i) == { k \in 1..Len(updates) : updates[k]._id = i }

\* the audit records of the key (u, w)
AuditsOf(u, w) ==
    { k \in 1..Len(transfer) : transfer[k].user_id = u /\ transfer[k].week = w }

\* C1: a draft of well-formed, existing, pairwise distinct players is persisted
\* (and answered with its id) exactly when the sum of the players' costs is at
\* most the requested budget; otherwise it is answered 400 "Budget exceeded"
\* and the draftteam collection is unchanged.
C1_DraftIffWithinBudget ==
    [][\A r \in DraftRequestsWide :
         (/\ pc' = pc
          /\ WellFormed(r.player_ids) /\ Existing(r.player_ids) /\ Distinct(r.player_ids)
          /\ create_draft(r))
         => IF EntrySum(r.player_ids) <= r.budget
            THEN /\ dresp'.status = 200
                 /\ Len(draftteam') = Len(draftteam) + 1
                 /\ SubSeq(draftteam', 1, Len(draftteam)) = draftteam
                 /\ draftteam'[Len(draftteam')].user_id = r.user_id
                 /\ draftteam'[Len(draftteam')].week = r.week
                 /\ draftteam'[Len(draftteam')].player_ids = r.player_ids
                 /\ draftteam'[Len(draftteam')].budget = r.budget
                 /\ draftteam'[Len(draftteam')].total_cost = EntrySum(r.player_ids)
            ELSE /\ dresp' = BudgetError
                 /\ draftteam' = draftteam]_vars

\* C1 witness: a roster exactly at the cap has been persisted and answered 200.
C1_Witness ==
    /\ dresp.status = 200
    /\ updates = <<>>
    /\ \E i \in 1..Len(draftteam) :
         /\ Len(draftteam[i].player_ids) = 2
         /\ Distinct(draftteam[i].player_ids) /\ Existing(draftteam[i].player_ids)
         /\ EntrySum(draftteam[i].player_ids) = draftteam[i].budget

\* C2: every stored roster's total_cost is the sum of the costs of the entries of
\* its player_ids, each occurrence counted.
C2_TotalCostIsEntrySum ==
    \A i \in 1..Len(draftteam) :
        draftteam[i].total_cost = EntrySum(draftteam[i].player_ids)

\* C3: every stored roster has total_cost <= its stored budget.
C3_WithinBudget ==
    \A i \in 1..Len(draftteam) : draftteam[i].total_cost <= draftteam[i].budget

\* C3 witness: a roster that transfers have rewritten sits exactly at its cap
\* while another transfer on it is still in flight.
C3_Witness ==
    \E i \in 1..Len(draftteam) :
        /\ UpdatesOf(i) # {}
        /\ draftteam[i].total_cost = draftteam[i].budget
        /\ \E p \in Procs : pc[p] = "update" /\ draft[p]._id = i

\* C4: when the cost recomputed for the swapped list exceeds the roster's stored
\* budget, the call ends with 400 "Budget exceeded", it has written nothing (the
\* stored roster is as every step of the call found it) and no audit record is added.
C4_TransferAllOrNothing ==
    [][\A p \in Procs :
         (/\ pc[p] = "update" /\ pc'[p] # "update"
          /\ SumCost(find_in(Append(RemoveAll(draft[p].player_ids, treq[p].out_player_id),
                                    treq[p].in_player_id)))
               > draftteam[draft[p]._id].budget)
         => /\ tstatus'[p] = BudgetError
            /\ pc'[p] = "done"
            /\ draftteam' = draftteam
            /\ transfer' = transfer
            /\ \A k \in 1..Len(updates') : updates'[k].proc # p]_vars

\* C4 witness: a transfer was refused for its budget after another one was applied.
C4_Witness ==
    \E p, q \in Procs :
        /\ tstatus[p] = BudgetError /\ pc[p] = "done"
        /\ tstatus[q] = Ok
        /\ Len(updates) = 1 /\ Len(transfer) = 1

\* C5: an update_one that make_transfer applies to a roster which another
\* make_transfer call has read too stores a total_cost equal to the cost sum of
\* the player_ids it stores.
C5_ConcurrentTotalCostIsSum ==
    [][\A p \in Procs :
         (/\ pc[p] = "update" /\ pc'[p] = "audit"
          /\ \E q \in Procs \ {p} :
               \/ draft[q]._id = draft[p]._id
               \/ \E k \in UpdatesOf(draft[p]._id) : updates[k].proc = q)
         => draftteam'[draft[p]._id].total_cost
              = EntrySum(draftteam'[draft[p]._id].player_ids)]_vars

\* what the two fields do agree on under every interleaving: the stored
\* total_cost is the sum over the player documents the stored player_ids
\* resolve to, each document once
TotalCostIsLookupSum ==
    \A i \in 1..Len(draftteam) :
        draftteam[i].total_cost = SumCost(find_in(draftteam[i].player_ids))

\* C6: for every key (user_id, week), the number of audit records equals the
\* number of roster updates make_transfer has applied for that key.
C6_AuditMatchesUpdates ==
    \A u \in UserIdStrs, w \in Weeks :
        Cardinality(AuditsOf(u, w)) =
        Cardinality({ k \in 1..Len(updates) :
                        /\ draftteam[updates[k]._id].user_id = u
                        /\ draftteam[updates[k]._id].week = w })

\* C7: a draft or transfer request with a malformed identifier field is answered
\* 400 "Invalid id" and changes neither the draftteam nor the transfer collection.
C7_MalformedIdRejected ==
    [][/\ \A r \in DraftRequests :
            (/\ pc' = pc
             /\ ~ObjectIdValid(r.user_id) \/ ~WellFormed(r.player_ids)
             /\ create_draft(r))
            => dresp' = IdError /\ draftteam' = draftteam /\ transfer' = transfer
       /\ \A p \in Procs : \A r \in TransferRequests :
            (/\ pc[p] = "idle" /\ pc'[p] # "idle"
             /\ \/ ~ObjectIdValid(r.user_id)
                \/ ~ObjectIdValid(r.out_player_id)
                \/ ~ObjectIdValid(r.in_player_id)
             /\ t_find(p, r))
            => tstatus'[p] = IdError /\ draftteam' = draftteam /\ transfer' = transfer]_vars

RECURSIVE PointsOf(_, _, _)
\* the points of user u over the first n stored rosters, those of week W[1] only
\* when W is not empty
PointsOf(u, W, n) ==
    IF n = 0 THEN 0
    ELSE PointsOf(u, W, n - 1)
         + (IF /\ draftteam[n].user_id = u
               /\ (W = <<>> \/ draftteam[n].week = W[1])
            THEN draftteam[n].points ELSE 0)

\* the users with a roster in the scope of W
UsersIn(W) ==
    { draftteam[i].user_id :
        i \in { n \in 1..Len(draftteam) : W = <<>> \/ draftteam[n].week = W[1] } }

\* C8: leaderboard(week, limit) returns one row per user with a roster in scope,
\* its points the sum over that user's rosters in scope (week W only, or all weeks
\* when week is omitted), rows in non-increasing order of points, and the
\* min(limit, number of users) highest-scoring users.
C8_Leaderboard ==
    lbreq.limit > 0 =>
        LET W == lbreq.week
            U == UsersIn(W)
            n == Len(draftteam)
        IN  /\ \A i, j \in 1..Len(rows) : i # j => rows[i].user_id # rows[j].user_id
            /\ \A i \in 1..Len(rows) :
                  /\ rows[i].user_id \in U
                  /\ rows[i].points = PointsOf(rows[i].user_id, W, n)
            /\ \A i \in 1..(Len(rows) - 1) : rows[i].points >= rows[i + 1].points
            /\ Len(rows) = IF lbreq.limit < Cardinality(U) THEN lbreq.limit
                           ELSE Cardinality(U)
            /\ \A u \in U :
                  (\A i \in 1..Len(rows) : rows[i].user_id # u)
                  => \A i \in 1..Len(rows) : PointsOf(u, W, n) <= rows[i].points

\* C8 witness: a query for one week cut by its limit, whose first row leaves out
\* points the same user holds in a roster of another week.
C8_Witness ==
    /\ lbreq.limit > 0 /\ lbreq.week # <<>>
    /\ Len(rows) = lbreq.limit
    /\ Cardinality(UsersIn(lbreq.week)) > lbreq.limit
    /\ rows[1].points > 0
    /\ rows[1].points < PointsOf(rows[1].user_id, <<>>, Len(draftteam))

\* C9: the update of a successful transfer stores the list the call read, without
\* the entries equal to out_player_id and with in_player_id appended; the list the
\* call read is the stored one; an out_player_id that does not occur leaves it
\* as it is, followed by in_player_id.
C9_SwapResult ==
    [][\A p \in Procs :
         /\ (pc[p] = "idle" /\ pc'[p] = "lookup")
            => draft'[p].player_ids = draftteam[draft'[p]._id].player_ids
         /\ (pc[p] = "update" /\ pc'[p] = "audit")
            => LET before == draft[p].player_ids
                   after == draftteam'[draft[p]._id].player_ids
               IN  /\ after = RemoveAll(before, treq[p].out_player_id)
                                \o <<treq[p].in_player_id>>
                   /\ (\A i \in 1..Len(before) : before[i] # treq[p].out_player_id)
                        => after = Append(before, treq[p].in_player_id)
         /\ (pc[p] = "audit" /\ pc'[p] = "done") => tstatus'[p] = Ok]_vars

\* C9 witness: two transfers were applied and answered ok, one whose out_player_id
\* was in the list it read and one whose out_player_id was not.
C9_Witness ==
    /\ \A p \in Procs : tstatus[p] = Ok
    /\ \E j, k \in 1..Len(updates) :
         /\ \E n \in 1..Len(updates[j].base) : updates[j].base[n] = updates[j].out_player_id
         /\ Len(updates[j].base) >= 2
         /\ \A n \in 1..Len(updates[k].base) : updates[k].base[n] # updates[k].out_player_id
         /\ Len(updates[k].base) >= 1

\* two applied updates of one roster, the later one computed from a list read
\* before the earlier one was written, both calls answered ok and audited
LostUpdate(j, k) ==
    /\ j < k
    /\ updates[j]._id = updates[k]._id
    /\ updates[k].seen < j
    /\ tstatus[updates[j].proc] = Ok /\ tstatus[updates[k].proc] = Ok
    /\ Len(transfer) >= 2

\* C10: when two transfers of one roster race, the later write is the swap applied
\* to the list the later writer read, whatever the earlier writer stored; the
\* earlier writer's in_player_id is in the stored list only if the later writer
\* read it or brought it in itself.
C10_LaterWriterOverwrites ==
    \A j, k \in 1..Len(updates) :
        (LostUpdate(j, k) /\ \A m \in UpdatesOf(updates[k]._id) : m <= k)
        => LET stored == draftteam[updates[k]._id].player_ids
           IN  /\ stored = RemoveAll(updates[k].base, updates[k].out_player_id)
                             \o <<updates[k].in_player_id>>
               /\ (/\ updates[j].in_player_id # updates[k].in_player_id
                   /\ \A n \in 1..Len(updates[k].base) :
                        updates[k].base[n] # updates[j].in_player_id)
                  => \A n \in 1..Len(stored) : stored[n] # updates[j].in_player_id

\* C10 witness: both calls returned ok, both audit records are written, and the
\* earlier writer's in_player_id is absent from the stored roster although the
\* later writer did not ask to remove it.
C10_Witness ==
    \E j, k \in 1..Len(updates) :
        /\ LostUpdate(j, k)
        /\ Len(transfer) = 2
        /\ updates[k].out_player_id # updates[j].in_player_id
        /\ \A n \in 1..Len(draftteam[updates[k]._id].player_ids) :
             draftteam[updates[k]._id].player_ids[n] # updates[j].in_player_id

====
